---- MODULE Spec2Model ----
(***************************************************************************)
(* Multi_domain_SelfAttentionDecoder (decoders/self_attention_decoder.py). *)
(*                                                                         *)
(* Tensors are symbolic terms: a term records the operation that produced  *)
(* it and the operands it was applied to, so two results are equal exactly *)
(* when the same operations were applied to the same operands in the same  *)
(* order.  A batch holds one example; the time dimension of a tensor is    *)
(* the length of a sequence.  Python values that may be None carry a type  *)
(* tag (None, PyInt, Tensor, Tuple).                                       *)
(***************************************************************************)
EXTENDS Integers, Sequences, FiniteSets, TLC

\* ---------------------------------------------------------------- bounds
NumLayers == 2
NumDomains == 2
NumDomainUnits == 1
MaxT == 3
MaxLen == 2
NumSessions == 2
MaxTotalSteps == 3
MaxMemTime == 2

\* ------------------------------------------------------ program constants
NumUnits == 512
NumHeads == 8
NumSources == 1

Domains == 0 .. (NumDomains - 1)
Tokens == {"x", "y"}
ParamBundles == {"theta", "phi"}
Sessions == 1 .. NumSessions

\* ---------------------------------------------------------- Python values
None == [type |-> "NoneType"]
PyInt(n) == [type |-> "int", v |-> n]
Tensor(x) == [type |-> "Tensor", v |-> x]
Tuple(s) == [type |-> "tuple", items |-> s]
IsListOrTuple(x) == x.type = "tuple"

\* zip(a, b): pairs up to the shorter of the two sequences.
Min(a, b) == IF a <= b THEN a ELSE b
Zip(a, b) == [k \in 1 .. Min(Len(a), Len(b)) |-> <<a[k], b[k]>>]

\* The keys a query may attend to: all of them without a mask, the masked-in
\* ones otherwise.
RECURSIVE SelectKeys(_, _, _)
SelectKeys(keys, row, k) ==
    IF k > Len(keys) THEN <<>>
    ELSE (IF row[k] THEN <<keys[k]>> ELSE <<>>) \o SelectKeys(keys, row, k + 1)

\* ------------------------------------------------- external capabilities
\* inputs *= num_units ** 0.5
Scale(x, num_units) == <<"scale", x, num_units>>

\* position_encoder(inputs, position): the given absolute position for every
\* element, positions 1 .. time when no position is given.
PositionEncoder(xs, position) ==
    [p \in 1 .. Len(xs) |->
        <<"position", xs[p], IF position = None THEN p ELSE position.v>>]

\* common.dropout(inputs, rate, training)
dropout(xs, rate, training) ==
    [p \in 1 .. Len(xs) |-> <<"dropout", xs[p], rate, training>>]

\* transformer.future_mask: query q may see key k iff k <= q and k is within
\* the sequence length.
future_mask(sequence_length, maximum_length) ==
    [q \in 1 .. maximum_length |->
        [k \in 1 .. maximum_length |-> k <= q /\ k <= sequence_length]]

\* tf.sequence_mask(length, maxlen)
sequence_mask(length, maxlen) == [p \in 1 .. maxlen |-> p <= length]

\* make_domain_mask(num_domains, num_domain_units): row d selects exactly the
\* slots owned by domain d.
make_domain_mask(num_domains, num_domain_units) ==
    [d \in 0 .. (num_domains - 1) |->
        [slot \in 1 .. (num_domains * num_domain_units) |->
            IF (slot - 1) \div num_domain_units = d THEN 1 ELSE 0]]

\* tf.nn.embedding_lookup(table, ids)
embedding_lookup(table, id) == table[id]

\* The empty self_kv / memory_kv of a cache entry (time dimension 0).
EmptyKV == << <<>>, <<>> >>

\* SelfAttentionDecoderLayer: query q attends to the cached keys followed by
\* the keys of this call, restricted by the mask when there is one; the cache
\* entry is updated in place (the keys of this call appended to self_kv,
\* memory_kv filled on first use and then held) and returned.
SelfAttentionDecoderLayer(i, params, xs, mask, memory, memory_mask, cache) ==
    LET prev == IF cache = None THEN <<>> ELSE cache.self_kv[1]
        keys == prev \o xs
        Attended(q) ==
            IF mask = None THEN keys ELSE SelectKeys(keys, mask.v[q], 1)
        old_memory_kv ==
            IF cache = None THEN [s \in 1 .. NumSources |-> EmptyKV]
            ELSE cache.memory_kv
        populated == \E s \in 1 .. Len(old_memory_kv) : old_memory_kv[s] # EmptyKV
        memory_kv ==
            IF memory = None \/ populated THEN old_memory_kv
            ELSE [s \in 1 .. Len(memory.items) |->
                     <<memory.items[s], memory.items[s]>>]
    IN  [outputs |-> [q \in 1 .. Len(xs) |->
                        <<"attn", i, params, xs[q], Attended(q), memory, memory_mask>>],
         cache |-> [self_kv |-> <<keys, keys>>, memory_kv |-> memory_kv],
         attention |-> IF memory = None THEN None
                       ELSE Tensor([q \in 1 .. Len(xs) |-> <<"attention", i, q>>])]

\* Multi_domain_FeedForwardNetwork(inputs, domain_mask)
Multi_domain_FeedForwardNetwork(i, params, xs, domain_mask) ==
    [p \in 1 .. Len(xs) |-> <<"adapter", i, params, xs[p], domain_mask>>]

\* a + b, elementwise over the time dimension
Add(a, b) == [p \in 1 .. Len(a) |-> <<"add", a[p], b[p]>>]

\* common.LayerNorm
LayerNorm(params, xs) == [p \in 1 .. Len(xs) |-> <<"layer_norm", params, xs[p]>>]

\* common.Dense output layer
Dense(params, xs) == [p \in 1 .. Len(xs) |-> <<"output_layer", params, xs[p]>>]

\* ------------------------------------------------------------ the decoder
\* __init__: the instance's fields.  params names the values of the weights
\* the instance owns.
Decoder(position_encoder) ==
    [num_units |-> NumUnits,
     num_heads |-> NumHeads,
     num_sources |-> NumSources,
     dropout |-> "rate",
     position_encoder |-> position_encoder,
     layers |-> [k \in 1 .. NumLayers |-> k - 1],
     multi_domain_layers |-> [k \in 1 .. NumLayers |-> k - 1],
     mask |-> make_domain_mask(NumDomains, NumDomainUnits),
     params |-> "theta"]

\* The result of a call: an error, or the returned triple, with the calls made
\* on the collaborators in the order they were made.
Raise(error, calls) ==
    [error |-> error, outputs |-> None, state |-> None, attention |-> None,
     calls |-> calls]
Return(outputs, state, attention, calls) ==
    [error |-> "", outputs |-> outputs, state |-> state, attention |-> attention,
     calls |-> calls]

\* Line 95 with the offset dropped: position=step.
Position_NoOffset(step) == IF step # None THEN PyInt(step.v) ELSE None

\* Line 95: the position handed to the position encoder.
Position(step) == IF step # None THEN PyInt(step.v + 1) ELSE None

\* Lines 90-96: domain mask lookup, scaling, position encoding, dropout.
Preprocess(self, inputs, step, training) ==
    LET domain == inputs[2]
        domain_mask == embedding_lookup(self.mask, domain)
        scaled == [p \in 1 .. Len(inputs[1]) |-> Scale(inputs[1][p], self.num_units)]
        encoded == IF self.position_encoder
                   THEN PositionEncoder(scaled, Position(step)) ELSE scaled
        dropped == dropout(encoded, self.dropout, training)
    IN  [inputs |-> dropped,
         domain_mask |-> domain_mask,
         calls |->
            (IF self.position_encoder
             THEN << [op |-> "position_encoder", input |-> scaled,
                      position |-> Position(step)] >>
             ELSE <<>>)
            \o << [op |-> "dropout", input |-> encoded, training |-> training] >>]

\* Lines 98-105 with the mask never built.
QueryMask_Never(inputs, sequence_length, step) == [mask |-> None, calls |-> <<>>]

\* Lines 98-105: the query (causal) mask.
QueryMask(inputs, sequence_length, step) ==
    IF step = None
    THEN LET maximum_length == Len(inputs)
             lengths == IF sequence_length = None
                        THEN PyInt(maximum_length) ELSE sequence_length
         IN  [mask |-> Tensor(future_mask(lengths.v, maximum_length)),
              calls |-> << [op |-> "future_mask", sequence_length |-> lengths.v,
                            maximum_length |-> maximum_length] >>]
    ELSE [mask |-> None, calls |-> <<>>]

\* Lines 107-117: the memory mask.  zip() over a memory that is None raises
\* TypeError.
MemoryMask(memory, memory_sequence_length) ==
    LET mem == IF memory # None /\ ~IsListOrTuple(memory)
               THEN Tuple(<<memory>>) ELSE memory
        lens == IF memory_sequence_length # None
                   /\ ~IsListOrTuple(memory_sequence_length)
                THEN Tuple(<<memory_sequence_length>>) ELSE memory_sequence_length
    IN  IF memory_sequence_length = None
        THEN [error |-> "", memory |-> mem, memory_mask |-> None, calls |-> <<>>]
        ELSE IF mem = None
        THEN [error |-> "TypeError", memory |-> mem, memory_mask |-> None,
              calls |-> <<>>]
        ELSE LET pairs == Zip(mem.items, lens.items)
             IN  [error |-> "",
                  memory |-> mem,
                  memory_mask |-> Tuple([k \in 1 .. Len(pairs) |->
                      sequence_mask(pairs[k][2].v, pairs[k][1].v.time)]),
                  calls |-> [k \in 1 .. Len(pairs) |->
                      [op |-> "sequence_mask", source |-> pairs[k][1].v.id,
                       length |-> pairs[k][2].v, maxlen |-> pairs[k][1].v.time]]]

\* Line 128 with the cache dropped: cache=None for every layer.
LayerCache_Dropped(cache, i) == None

\* Line 128 with the index dropped: cache[0] for every layer.
LayerCache_First(cache, i) == IF cache # None THEN cache.items[1] ELSE None

\* Line 128: the cache argument of layer i.
LayerCache(cache, i) == IF cache # None THEN cache.items[i + 1] ELSE None

\* Line 132 with the residual dropped.
Residual_Dropped(adapted, inputs) == adapted

\* Line 132: the adapter's output added to the adapter's input.
Residual(adapted, inputs) == Add(adapted, inputs)

\* Lines 121-132: the body of the loop over zip(layers, multi_domain_layers).
\* acc holds inputs, new_cache, attention and the calls made so far.
LayerIteration(self, k, acc, mask, memory, memory_mask, cache, domain_mask) ==
    LET i == k - 1
        layer == self.layers[k]
        multi_domain_layer == self.multi_domain_layers[k]
        r == SelfAttentionDecoderLayer(layer, self.params, acc.inputs, mask,
                                       memory, memory_mask, LayerCache(cache, i))
        adapted == Multi_domain_FeedForwardNetwork(
                       multi_domain_layer, self.params, r.outputs, domain_mask)
    IN  [inputs |-> Residual(adapted, r.outputs),
         new_cache |-> Append(acc.new_cache, r.cache),
         attention |-> r.attention,
         calls |-> acc.calls \o
            << [op |-> "layer", i |-> layer, fn |-> FALSE, params |-> self.params,
                input |-> acc.inputs, mask |-> mask, memory |-> memory,
                memory_mask |-> memory_mask, cache |-> LayerCache(cache, i),
                output |-> r.outputs, layer_cache |-> r.cache],
               [op |-> "adapter", i |-> multi_domain_layer, fn |-> FALSE,
                params |-> self.params, input |-> r.outputs,
                domain_mask |-> domain_mask, output |-> adapted] >>]

RECURSIVE RunLayers(_, _, _, _, _, _, _, _)
RunLayers(self, k, acc, mask, memory, memory_mask, cache, domain_mask) ==
    IF k > Min(Len(self.layers), Len(self.multi_domain_layers)) THEN acc
    ELSE RunLayers(self, k + 1,
                   LayerIteration(self, k, acc, mask, memory, memory_mask, cache,
                                  domain_mask),
                   mask, memory, memory_mask, cache, domain_mask)

\* Lines 81-135.
_run(self, inputs, sequence_length, cache, memory, memory_sequence_length, step, training) ==
    LET pre == Preprocess(self, inputs, step, training)
        qm == QueryMask(pre.inputs, sequence_length, step)
        mm == MemoryMask(memory, memory_sequence_length)
        before == pre.calls \o qm.calls \o mm.calls
        acc == RunLayers(self, 1,
                         [inputs |-> pre.inputs, new_cache |-> <<>>,
                          attention |-> None, calls |-> before],
                         qm.mask, mm.memory, mm.memory_mask, cache,
                         pre.domain_mask)
        outputs == LayerNorm(self.params, acc.inputs)
    IN  IF mm.error # "" THEN Raise(mm.error, before)
        ELSE Return(outputs, Tuple(acc.new_cache), acc.attention,
                    acc.calls \o << [op |-> "layer_norm", fn |-> FALSE,
                                     params |-> self.params,
                                     input |-> acc.inputs, output |-> outputs] >>)

\* ------------------------------------------- the explicit-parameter path
\* Lines 227-233.
PreprocessFn(self, inputs, step, training) ==
    LET domain == inputs[2]
        domain_mask == embedding_lookup(self.mask, domain)
        scaled == [p \in 1 .. Len(inputs[1]) |-> Scale(inputs[1][p], self.num_units)]
        position == IF step # None THEN PyInt(step.v + 1) ELSE None
        encoded == IF self.position_encoder
                   THEN PositionEncoder(scaled, position) ELSE scaled
        dropped == dropout(encoded, self.dropout, training)
    IN  [inputs |-> dropped,
         domain_mask |-> domain_mask,
         calls |->
            (IF self.position_encoder
             THEN << [op |-> "position_encoder", input |-> scaled,
                      position |-> position] >>
             ELSE <<>>)
            \o << [op |-> "dropout", input |-> encoded, training |-> training] >>]

\* Lines 235-242 with the given sequence lengths ignored.
QueryMaskFn_FullLength(inputs, sequence_length, step) == QueryMask(inputs, None, step)

\* Lines 235-242.
QueryMaskFn(inputs, sequence_length, step) ==
    IF step = None
    THEN LET maximum_length == Len(inputs)
             lengths == IF sequence_length = None
                        THEN PyInt(maximum_length) ELSE sequence_length
         IN  [mask |-> Tensor(future_mask(lengths.v, maximum_length)),
              calls |-> << [op |-> "future_mask", sequence_length |-> lengths.v,
                            maximum_length |-> maximum_length] >>]
    ELSE [mask |-> None, calls |-> <<>>]

\* Lines 244-254.
MemoryMaskFn(memory, memory_sequence_length) ==
    LET mem == IF memory # None /\ ~IsListOrTuple(memory)
               THEN Tuple(<<memory>>) ELSE memory
        lens == IF memory_sequence_length # None
                   /\ ~IsListOrTuple(memory_sequence_length)
                THEN Tuple(<<memory_sequence_length>>) ELSE memory_sequence_length
    IN  IF memory_sequence_length = None
        THEN [error |-> "", memory |-> mem, memory_mask |-> None, calls |-> <<>>]
        ELSE IF mem = None
        THEN [error |-> "TypeError", memory |-> mem, memory_mask |-> None,
              calls |-> <<>>]
        ELSE LET pairs == Zip(mem.items, lens.items)
             IN  [error |-> "",
                  memory |-> mem,
                  memory_mask |-> Tuple([k \in 1 .. Len(pairs) |->
                      sequence_mask(pairs[k][2].v, pairs[k][1].v.time)]),
                  calls |-> [k \in 1 .. Len(pairs) |->
                      [op |-> "sequence_mask", source |-> pairs[k][1].v.id,
                       length |-> pairs[k][2].v, maxlen |-> pairs[k][1].v.time]]]

\* Lines 258-270: the loop body, every collaborator called through forward_fn
\* with the supplied parameter bundle.
LayerIterationFn(self, args_dict, k, acc, mask, memory, memory_mask, cache, domain_mask) ==
    LET i == k - 1
        layer == self.layers[k]
        multi_domain_layer == self.multi_domain_layers[k]
        layer_cache == IF cache # None THEN cache.items[i + 1] ELSE None
        r == SelfAttentionDecoderLayer(layer, args_dict, acc.inputs, mask,
                                       memory, memory_mask, layer_cache)
        adapted == Multi_domain_FeedForwardNetwork(
                       multi_domain_layer, args_dict, r.outputs, domain_mask)
    IN  [inputs |-> Add(adapted, r.outputs),
         new_cache |-> Append(acc.new_cache, r.cache),
         attention |-> r.attention,
         calls |-> acc.calls \o
            << [op |-> "layer", i |-> layer, fn |-> TRUE, params |-> args_dict,
                input |-> acc.inputs, mask |-> mask, memory |-> memory,
                memory_mask |-> memory_mask, cache |-> layer_cache,
                output |-> r.outputs, layer_cache |-> r.cache],
               [op |-> "adapter", i |-> multi_domain_layer, fn |-> TRUE,
                params |-> args_dict, input |-> r.outputs,
                domain_mask |-> domain_mask, output |-> adapted] >>]

RECURSIVE RunLayersFn(_, _, _, _, _, _, _, _, _)
RunLayersFn(self, args_dict, k, acc, mask, memory, memory_mask, cache, domain_mask) ==
    IF k > Min(Len(self.layers), Len(self.multi_domain_layers)) THEN acc
    ELSE RunLayersFn(self, args_dict, k + 1,
                     LayerIterationFn(self, args_dict, k, acc, mask, memory,
                                      memory_mask, cache, domain_mask),
                     mask, memory, memory_mask, cache, domain_mask)

\* Lines 218-273.
_run_forward_fn(self, inputs, args_dict, sequence_length, cache, memory, memory_sequence_length, step, training) ==
    LET pre == PreprocessFn(self, inputs, step, training)
        qm == QueryMaskFn(pre.inputs, sequence_length, step)
        mm == MemoryMaskFn(memory, memory_sequence_length)
        before == pre.calls \o qm.calls \o mm.calls
        acc == RunLayersFn(self, args_dict, 1,
                           [inputs |-> pre.inputs, new_cache |-> <<>>,
                            attention |-> None, calls |-> before],
                           qm.mask, mm.memory, mm.memory_mask, cache,
                           pre.domain_mask)
        outputs == LayerNorm(args_dict, acc.inputs)
    IN  IF mm.error # "" THEN Raise(mm.error, before)
        ELSE Return(outputs, Tuple(acc.new_cache), acc.attention,
                    acc.calls \o << [op |-> "layer_norm", fn |-> TRUE,
                                     params |-> args_dict,
                                     input |-> acc.inputs, output |-> outputs] >>)

\* ------------------------------------------------------ the entry points
ScheduledSampling == "ValueError: Scheduled sampling is not supported by this decoder"

\* Lines 137-157 with the sampling check made after the run.
forward_LateCheck(self, inputs, sequence_length, memory, memory_sequence_length, sampling_probability, training) ==
    LET r == _run(self, inputs, sequence_length, None, memory,
                  memory_sequence_length, None, training)
        logits == Dense(self.params, r.outputs)
    IN  IF r.error # "" THEN r
        ELSE IF sampling_probability # None THEN Raise(ScheduledSampling, r.calls)
        ELSE Return(logits, r.state, r.attention,
                    r.calls \o << [op |-> "output_layer", fn |-> FALSE,
                                   params |-> self.params,
                                   input |-> r.outputs, output |-> logits] >>)

\* Lines 137-157.
forward(self, inputs, sequence_length, memory, memory_sequence_length, sampling_probability, training) ==
    IF sampling_probability # None THEN Raise(ScheduledSampling, <<>>)
    ELSE LET r == _run(self, inputs, sequence_length, None, memory,
                       memory_sequence_length, None, training)
             logits == Dense(self.params, r.outputs)
         IN  IF r.error # "" THEN r
             ELSE Return(logits, r.state, r.attention,
                         r.calls \o << [op |-> "output_layer", fn |-> FALSE,
                                        params |-> self.params,
                                        input |-> r.outputs, output |-> logits] >>)

\* Lines 159-181.
forward_fn(self, inputs, args_dict, sequence_length, memory, memory_sequence_length, sampling_probability, training) ==
    IF sampling_probability # None THEN Raise(ScheduledSampling, <<>>)
    ELSE LET r == _run_forward_fn(self, inputs, args_dict, sequence_length, None,
                                  memory, memory_sequence_length, None, training)
             logits == Dense(args_dict, r.outputs)
         IN  IF r.error # "" THEN r
             ELSE Return(logits, r.state, r.attention,
                         r.calls \o << [op |-> "output_layer", fn |-> TRUE,
                                        params |-> args_dict,
                                        input |-> r.outputs, output |-> logits] >>)

\* tf.squeeze(x, axis=1) of a tensor whose time dimension is 1.
Squeeze(xs) == xs[1]

\* Line 194: the cache step hands to _run.
StepCache(state) == state

\* Lines 183-202.  inputs is the pair (one embedded token, domain).
step(self, inputs, timestep, state, memory, memory_sequence_length, training) ==
    LET expanded == << <<inputs[1]>>, inputs[2] >>
        r == _run(self, expanded, None, StepCache(state), memory,
                  memory_sequence_length, PyInt(timestep), training)
    IN  IF r.error # "" THEN r
        ELSE Return(Squeeze(r.outputs), r.state,
                    IF r.attention # None THEN Tensor(Squeeze(r.attention.v))
                    ELSE r.attention,
                    r.calls)

\* Lines 204-216: one entry per layer, every self_kv and memory_kv of time
\* dimension 0.
_get_initial_state(self) ==
    Tuple([k \in 1 .. Len(self.layers) |->
              [self_kv |-> EmptyKV,
               memory_kv |-> [s \in 1 .. self.num_sources |-> EmptyKV]]])

\* ---------------------------------------------------------------- state
\* decoder   the decoder instance (its fields are set once, by __init__)
\* entries   the cache-entry objects (dicts) on the heap, by identity
\* lists     the cache list objects on the heap: the identities of their entries
\* sessions  each decode session of the caller: its domain and memory, the
\*           cache list it holds, the list it passed to its last step call,
\*           what it fed to step so far and what step returned
\* last      the last single call made on the decoder, with its result
VARIABLES decoder, entries, lists, sessions, last
vars == <<decoder, entries, lists, sessions, last>>

Unallocated == [type |-> "unallocated"]
EntryIds == Sessions \X (1 .. NumLayers)
ListIds == Sessions \X (0 .. MaxT)
NoList == <<0, 0>>

\* Arguments the callers draw from.
TokenSeqs(n) == UNION {[1 .. m -> Tokens] : m \in 1 .. n}
Memory1 == Tensor([id |-> 1, time |-> MaxMemTime])
Memory2 == Tensor([id |-> 2, time |-> 1])
MemoryArgs == {None, Memory1, Tuple(<<Memory1, Memory2>>)}
LengthArgs == {None, PyInt(1), Tuple(<<PyInt(2), PyInt(1)>>)}
SessionMemory == {<<None, None>>, <<Memory1, PyInt(1)>>}
Optional(S) == {None} \cup {PyInt(n) : n \in S}

NoCall ==
    [fn |-> "none", inputs |-> <<>>, args_dict |-> "", sequence_length |-> None,
     state |-> None, memory |-> None, memory_sequence_length |-> None,
     sampling_probability |-> None, timestep |-> None, training |-> FALSE,
     result |-> Raise("", <<>>)]

\* The sessions before any of them has started.  Every example of the batch
\* being decoded attends to the same encoder output m; the examples differ in
\* their domain.
DomainOf(s) == (s - 1) % NumDomains
NoSessions(m) ==
    [s \in Sessions |->
        [primed |-> FALSE, domain |-> DomainOf(s), memory |-> m[1],
         memory_sequence_length |-> m[2], cache |-> NoList, passed |-> NoList,
         fed |-> <<>>, outputs |-> <<>>]]

Init ==
    /\ decoder \in {Decoder(TRUE), Decoder(FALSE)}
    /\ entries = [e \in EntryIds |-> Unallocated]
    /\ lists = [l \in ListIds |-> <<>>]
    /\ sessions = NoSessions(<<None, None>>)
    /\ last = NoCall

InitDecode ==
    /\ decoder \in {Decoder(TRUE), Decoder(FALSE)}
    /\ entries = [e \in EntryIds |-> Unallocated]
    /\ lists = [l \in ListIds |-> <<>>]
    /\ \E m \in SessionMemory : sessions = NoSessions(m)
    /\ last = NoCall

\* The cache a list object denotes: its entries, read through the heap.
Deref(l) == Tuple([k \in 1 .. Len(lists[l]) |-> entries[lists[l][k]]])

RECURSIVE TotalSteps(_)
TotalSteps(S) ==
    IF S = {} THEN 0
    ELSE LET s == CHOOSE x \in S : TRUE
         IN  Len(sessions[s].fed) + TotalSteps(S \ {s})

\* Lines 208-215 with the dicts built once and handed to every caller.
NewEntry_Shared(s, k) == <<1, k>>

\* Lines 208-215: every call builds a new list and a new dict per layer.
NewEntry(s, k) == <<s, k>>

\* A caller starts session s: it takes a cache from _get_initial_state.
GetInitialState(s) ==
    /\ ~sessions[s].primed
    /\ LET c == _get_initial_state(decoder)
       IN  /\ entries' = [e \in EntryIds |->
                 IF \E k \in 1 .. Len(c.items) : NewEntry(s, k) = e
                 THEN c.items[CHOOSE k \in 1 .. Len(c.items) : NewEntry(s, k) = e]
                 ELSE entries[e]]
           /\ lists' = [lists EXCEPT ![<<s, 0>>] =
                 [k \in 1 .. Len(c.items) |-> NewEntry(s, k)]]
    /\ sessions' = [sessions EXCEPT ![s] =
          [@ EXCEPT !.primed = TRUE, !.cache = <<s, 0>>]]
    /\ UNCHANGED <<decoder, last>>

\* Lines 120, 135 with the given list updated and returned instead.
ReturnedList_Given(passed, built) == passed

\* Lines 120, 135: the list step returns is the list _run built, not the list
\* it was given.
ReturnedList(passed, built) == built

\* Session s calls step with its cache, one token and a timestep.  The layers
\* update the entries of the given cache in place and return them; _run
\* collects the returned entries in a new list.
Step(s, tok, t) ==
    /\ sessions[s].primed
    /\ Len(sessions[s].fed) < MaxT
    /\ TotalSteps(Sessions) < MaxTotalSteps
    /\ LET held == sessions[s].cache
           built == <<s, Len(sessions[s].fed) + 1>>
           r == step(decoder, <<tok, sessions[s].domain>>, t, Deref(held),
                     sessions[s].memory, sessions[s].memory_sequence_length, FALSE)
       IN  /\ r.error = ""
           /\ entries' = [e \in EntryIds |->
                 IF \E k \in 1 .. Len(lists[held]) : lists[held][k] = e
                 THEN r.state.items[CHOOSE k \in 1 .. Len(lists[held]) :
                                        lists[held][k] = e]
                 ELSE entries[e]]
           /\ lists' = [lists EXCEPT ![built] = lists[held]]
           /\ sessions' = [sessions EXCEPT ![s] =
                 [@ EXCEPT !.cache = ReturnedList(held, built),
                           !.passed = held,
                           !.fed = Append(@, [tok |-> tok, timestep |-> t]),
                           !.outputs = Append(@, r.outputs)]]
    /\ UNCHANGED <<decoder, last>>

\* The timesteps a caller passes after n steps: the next one, or one off it.
Timesteps(n) == {n, (n + 1) % MaxT}

NextDecode ==
    \/ \E s \in Sessions : GetInitialState(s)
    \/ \E s \in Sessions, tok \in Tokens :
          \E t \in Timesteps(Len(sessions[s].fed)) : Step(s, tok, t)

SpecDecode == InitDecode /\ [][NextDecode]_vars

\* ----------------------------------------------------------- single calls
Forward(inputs, sequence_length, memory, memory_sequence_length, sampling_probability, training) ==
    /\ last.fn = "none"
    /\ last' = [NoCall EXCEPT
          !.fn = "forward", !.inputs = inputs,
          !.sequence_length = sequence_length, !.memory = memory,
          !.memory_sequence_length = memory_sequence_length,
          !.sampling_probability = sampling_probability, !.training = training,
          !.result = forward(decoder, inputs, sequence_length, memory,
                             memory_sequence_length, sampling_probability, training)]
    /\ UNCHANGED <<decoder, entries, lists, sessions>>

ForwardFn(inputs, args_dict, sequence_length, memory, memory_sequence_length, sampling_probability, training) ==
    /\ last.fn = "none"
    /\ last' = [NoCall EXCEPT
          !.fn = "forward_fn", !.inputs = inputs, !.args_dict = args_dict,
          !.sequence_length = sequence_length, !.memory = memory,
          !.memory_sequence_length = memory_sequence_length,
          !.sampling_probability = sampling_probability, !.training = training,
          !.result = forward_fn(decoder, inputs, args_dict, sequence_length, memory,
                                memory_sequence_length, sampling_probability,
                                training)]
    /\ UNCHANGED <<decoder, entries, lists, sessions>>

\* The cache a caller holds after feeding toks to step at timesteps 0, 1, ...
RECURSIVE CacheAfter(_, _, _)
CacheAfter(self, toks, domain) ==
    IF toks = <<>> THEN _get_initial_state(self)
    ELSE LET n == Len(toks)
         IN  step(self, <<toks[n], domain>>, n - 1,
                  CacheAfter(self, SubSeq(toks, 1, n - 1), domain),
                  None, None, FALSE).state

StateArgs(self, domain) ==
    {None} \cup {CacheAfter(self, toks, domain) :
                    toks \in {<<>>} \cup TokenSeqs(MaxLen - 1)}

StepCall(inputs, timestep, state, memory, memory_sequence_length, training) ==
    /\ last.fn = "none"
    /\ last' = [NoCall EXCEPT
          !.fn = "step", !.inputs = inputs, !.timestep = PyInt(timestep),
          !.state = state, !.memory = memory,
          !.memory_sequence_length = memory_sequence_length,
          !.training = training,
          !.result = step(decoder, inputs, timestep, state, memory,
                          memory_sequence_length, training)]
    /\ UNCHANGED <<decoder, entries, lists, sessions>>

\* The caller is done with the result of the last call.
Discard ==
    /\ last.fn # "none"
    /\ last' = NoCall
    /\ UNCHANGED <<decoder, entries, lists, sessions>>

ForwardCalls ==
    \E toks \in TokenSeqs(MaxLen), d \in Domains,
       sl \in Optional(1 .. MaxLen), m \in MemoryArgs, ml \in LengthArgs,
       sp \in {None, Tensor("p")}, tr \in BOOLEAN :
       /\ sl # None => sl.v <= Len(toks)
       /\ Forward(<<toks, d>>, sl, m, ml, sp, tr)

ForwardFnCalls ==
    \E toks \in TokenSeqs(MaxLen), d \in Domains, a \in ParamBundles,
       sl \in Optional(1 .. MaxLen), m \in MemoryArgs, ml \in LengthArgs,
       sp \in {None, Tensor("p")}, tr \in BOOLEAN :
       /\ sl # None => sl.v <= Len(toks)
       /\ ForwardFn(<<toks, d>>, a, sl, m, ml, sp, tr)

StepCalls ==
    \E d \in Domains :
       \E st \in StateArgs(decoder, d) :
          \E tok \in Tokens, t \in 0 .. (MaxLen - 1),
             m \in MemoryArgs, ml \in LengthArgs, tr \in BOOLEAN :
             StepCall(<<tok, d>>, t, st, m, ml, tr)

NextCalls ==
    \/ Discard
    \/ last.fn = "none" /\ ForwardCalls
    \/ last.fn = "none" /\ ForwardFnCalls
    \/ last.fn = "none" /\ StepCalls

SpecCalls == Init /\ [][NextCalls]_vars

\* ======================================================== decode sessions
Steps(s) == Len(sessions[s].fed)
Held(s) == Deref(sessions[s].cache)
TimeDim(kv) == Len(kv[1])

\* C1: from the cache of _get_initial_state, after n successive step calls,
\* each given the cache the previous call returned, the self_kv of every
\* layer has time dimension n (0 before the first step), keys and values alike.
CacheGrowth ==
    \A s \in Sessions : sessions[s].primed =>
        /\ Len(Held(s).items) = NumLayers
        /\ \A k \in 1 .. NumLayers :
              /\ Len(Held(s).items[k].self_kv[1]) = Steps(s)
              /\ Len(Held(s).items[k].self_kv[2]) = Steps(s)

CacheGrowthWitness ==
    \E s \in Sessions :
        /\ sessions[s].primed
        /\ Steps(s) = MaxT
        /\ \A k \in 1 .. NumLayers : TimeDim(Held(s).items[k].self_kv) = MaxT

\* The session fed step the timesteps 0, 1, 2, ... in order.
Sequential(s) == \A p \in 1 .. Steps(s) : sessions[s].fed[p].timestep = p - 1
Target(s) == [p \in 1 .. Steps(s) |-> sessions[s].fed[p].tok]
ForwardOver(s) ==
    forward(decoder, <<Target(s), sessions[s].domain>>, None, sessions[s].memory,
            sessions[s].memory_sequence_length, None, FALSE)

\* C2 as stated: for a known target of length T, what forward returns at
\* position t is what the t-th of T sequential step calls returns.
StepEqualsForward ==
    \A s \in Sessions : (sessions[s].primed /\ Steps(s) >= 1 /\ Sequential(s)) =>
        sessions[s].outputs = ForwardOver(s).outputs

\* C2 amended: what forward returns at position t is the output layer applied
\* to what the t-th of T sequential step calls returns: same position, same
\* attended keys, same layers, adapters and final normalization, and then the
\* output projection that step leaves to its caller.
StepProjectedEqualsForward ==
    \A s \in Sessions : (sessions[s].primed /\ Steps(s) >= 1 /\ Sequential(s)) =>
        /\ ForwardOver(s).error = ""
        /\ Dense(decoder.params, sessions[s].outputs) = ForwardOver(s).outputs

StepProjectedEqualsForwardWitness ==
    \E s \in Sessions :
        /\ sessions[s].primed /\ Steps(s) = MaxT /\ Sequential(s)
        /\ decoder.position_encoder
        /\ sessions[s].memory # None
        /\ Dense(decoder.params, sessions[s].outputs) = ForwardOver(s).outputs

\* What session s gets when its first n step calls are the only calls made.
RECURSIVE Alone(_, _)
Alone(s, n) ==
    IF n = 0 THEN [state |-> _get_initial_state(decoder), outputs |-> <<>>]
    ELSE LET prev == Alone(s, n - 1)
             r == step(decoder, <<sessions[s].fed[n].tok, sessions[s].domain>>,
                       sessions[s].fed[n].timestep, prev.state, sessions[s].memory,
                       sessions[s].memory_sequence_length, FALSE)
         IN  [state |-> r.state, outputs |-> Append(prev.outputs, r.outputs)]

\* C4: with one cache per session from _get_initial_state, however the step
\* calls of the sessions interleave, each session's outputs and cache are
\* those it gets when run alone, and the decoder instance is as constructed.
SessionsIsolated ==
    /\ decoder \in {Decoder(TRUE), Decoder(FALSE)}
    /\ \A s \in Sessions : sessions[s].primed =>
          /\ sessions[s].outputs = Alone(s, Steps(s)).outputs
          /\ Held(s) = Alone(s, Steps(s)).state

SessionsIsolatedWitness ==
    \E s, u \in Sessions :
        /\ s # u
        /\ sessions[s].primed /\ sessions[u].primed
        /\ Steps(s) >= 2 /\ Steps(u) >= 1
        /\ sessions[s].fed[1] # sessions[u].fed[1]
        /\ Held(s) = Alone(s, Steps(s)).state
        /\ Held(u) = Alone(u, Steps(u)).state

\* The key layer 0 appends for the last step of session s.
LastKey(s) ==
    Preprocess(decoder, << <<sessions[s].fed[Steps(s)].tok>>, sessions[s].domain >>,
               PyInt(sessions[s].fed[Steps(s)].timestep), FALSE).inputs[1]

\* C5 as stated: after a step call the cache the caller passed in has this
\* step's key/value appended for every layer, and the cache step returned is
\* that same cache object.
StepReturnsGivenCache ==
    \A s \in Sessions : Steps(s) >= 1 =>
        /\ \A k \in 1 .. NumLayers :
              TimeDim(Deref(sessions[s].passed).items[k].self_kv) = Steps(s)
        /\ sessions[s].cache = sessions[s].passed

\* C5 amended: the cache step returns is a list step built, never the list
\* object the caller passed in; it has one entry per layer, each with this
\* step's key/value appended last; and no list a caller ever held has been
\* appended to or had an entry replaced.
StepReturnsNewList ==
    \A s \in Sessions : Steps(s) >= 1 =>
        /\ sessions[s].cache # sessions[s].passed
        /\ Len(lists[sessions[s].cache]) = NumLayers
        /\ \A k \in 1 .. NumLayers :
              TimeDim(Held(s).items[k].self_kv) = Steps(s)
        /\ Held(s).items[1].self_kv[1][Steps(s)] = LastKey(s)
        /\ \A n \in 0 .. Steps(s) :
              lists[<<s, n>>] = [k \in 1 .. NumLayers |-> <<s, k>>]

StepReturnsNewListWitness ==
    \E s \in Sessions :
        /\ Steps(s) >= 2
        /\ sessions[s].cache # sessions[s].passed
        /\ sessions[s].passed # <<s, 0>>
        /\ Held(s).items[1].self_kv[1][Steps(s)] = LastKey(s)

\* =========================================================== single calls
Called == last.fn # "none"
Returned == Called /\ last.result.error = ""
Calls == last.result.calls
CallsTo(ops) == SelectSeq(Calls, LAMBDA c : c.op \in ops)
LayerCalls == CallsTo({"layer"})

\* What forward returns for the arguments of the last call.
Owned ==
    forward(decoder, last.inputs, last.sequence_length, last.memory,
            last.memory_sequence_length, last.sampling_probability, last.training)
SameBundle == last.fn = "forward_fn" /\ last.args_dict = decoder.params
\* The calls of a run with the marks of the entry point used taken off.
Unmarked(calls) ==
    [k \in 1 .. Len(calls) |->
        IF "fn" \in DOMAIN calls[k] THEN [calls[k] EXCEPT !.fn = FALSE]
        ELSE calls[k]]

\* C3: forward_fn, given a bundle equal in value to the instance's own
\* parameters, makes the same calls in the same order with the same arguments
\* as forward (preprocessing, masks, layers, cache argument, adapters, one
\* normalization, one projection) and returns the same logits, cache and
\* attention, or raises the same error.
ModeEquivalence ==
    SameBundle =>
        /\ last.result.error = Owned.error
        /\ last.result.outputs = Owned.outputs
        /\ last.result.state = Owned.state
        /\ last.result.attention = Owned.attention
        /\ Unmarked(Calls) = Owned.calls

ModeEquivalenceWitness ==
    /\ SameBundle /\ Returned
    /\ Len(last.inputs[1]) = MaxLen
    /\ last.sequence_length # None /\ last.sequence_length.v < MaxLen
    /\ last.memory_sequence_length # None
    /\ last.result.outputs = Owned.outputs
    /\ Unmarked(Calls) = Owned.calls

\* C6: forward and forward_fn with a sampling_probability raise the
\* unsupported-feature error before any call on a collaborator and return
\* nothing; without one they never raise that error.
FailFast ==
    last.fn \in {"forward", "forward_fn"} =>
        IF last.sampling_probability # None
        THEN /\ last.result.error = ScheduledSampling
             /\ Calls = <<>>
             /\ last.result.outputs = None
             /\ last.result.state = None
             /\ last.result.attention = None
        ELSE last.result.error # ScheduledSampling

FailFastWitness ==
    /\ last.fn = "forward"
    /\ last.sampling_probability # None
    /\ last.memory # None
    /\ last.result.error = ScheduledSampling
    /\ Calls = <<>>

\* C7: in every call that returns, layer i is given entry i of the supplied
\* cache (no cache when none is supplied), and entry i of the returned cache
\* is the entry layer i returned; the returned cache has one entry per layer.
CacheThreading ==
    Returned =>
        /\ Len(LayerCalls) = NumLayers
        /\ Len(last.result.state.items) = NumLayers
        /\ \A k \in 1 .. NumLayers :
              /\ LayerCalls[k].i = k - 1
              /\ LayerCalls[k].cache =
                    IF last.state = None THEN None ELSE last.state.items[k]
              /\ last.result.state.items[k] = LayerCalls[k].layer_cache

CacheThreadingWitness ==
    /\ Returned /\ last.fn = "step" /\ last.state # None
    /\ last.state.items[1] # last.state.items[2]
    /\ \A k \in 1 .. NumLayers : LayerCalls[k].cache = last.state.items[k]

Stack == CallsTo({"layer", "adapter", "layer_norm"})

\* C8: in every call that returns, the layers run in index order; layer i is
\* followed by adapter i on layer i's output, the adapter's result is added to
\* that output, the sum is the input of layer i+1; the normalization runs
\* once, on the last sum, and what is returned derives from it.
LayerOrder ==
    Returned =>
        /\ Len(Stack) = 2 * NumLayers + 1
        /\ \A k \in 1 .. NumLayers :
              /\ Stack[2 * k - 1].op = "layer" /\ Stack[2 * k - 1].i = k - 1
              /\ Stack[2 * k].op = "adapter" /\ Stack[2 * k].i = k - 1
              /\ Stack[2 * k].input = Stack[2 * k - 1].output
              /\ Stack[2 * k + 1].input =
                    Add(Stack[2 * k].output, Stack[2 * k - 1].output)
        /\ Stack[2 * NumLayers + 1].op = "layer_norm"
        /\ Calls[Len(Calls) - (IF last.fn = "step" THEN 0 ELSE 1)].op = "layer_norm"
        /\ last.fn = "step" =>
              last.result.outputs = Stack[2 * NumLayers + 1].output[1]
        /\ last.fn # "step" =>
              /\ Calls[Len(Calls)].op = "output_layer"
              /\ Calls[Len(Calls)].input = Stack[2 * NumLayers + 1].output
              /\ last.result.outputs = Calls[Len(Calls)].output

LayerOrderWitness ==
    /\ Returned /\ last.fn = "forward_fn"
    /\ Len(last.inputs[1]) = MaxLen
    /\ Stack[3].input = Add(Stack[2].output, Stack[1].output)
    /\ Stack[2 * NumLayers + 1].op = "layer_norm"

FutureMasks == CallsTo({"future_mask"})
GivenLength ==
    IF last.sequence_length = None THEN Len(last.inputs[1])
    ELSE last.sequence_length.v

\* C9: every forward / forward_fn call that gets past the sampling check
\* builds one causal mask, from the given sequence length or else the length
\* of the inputs, and hands it to every layer; a step call builds none and
\* hands no mask to any layer.
CausalMaskPolicy ==
    (Called /\ last.sampling_probability = None) =>
        IF last.fn = "step"
        THEN /\ FutureMasks = <<>>
             /\ \A k \in 1 .. Len(LayerCalls) : LayerCalls[k].mask = None
        ELSE /\ Len(FutureMasks) = 1
             /\ FutureMasks[1].sequence_length = GivenLength
             /\ FutureMasks[1].maximum_length = Len(last.inputs[1])
             /\ \A k \in 1 .. Len(LayerCalls) :
                   LayerCalls[k].mask =
                      Tensor(future_mask(GivenLength, Len(last.inputs[1])))
             /\ Returned => Len(LayerCalls) = NumLayers

CausalMaskPolicyWitness ==
    /\ Returned /\ last.fn = "forward"
    /\ last.sequence_length # None /\ last.sequence_length.v < Len(last.inputs[1])
    /\ Len(FutureMasks) = 1
    /\ \A k \in 1 .. NumLayers :
          LayerCalls[k].mask = Tensor(future_mask(GivenLength, Len(last.inputs[1])))

\* The memory sources and lengths a call was given, as sequences.
Given(x) == IF x = None THEN <<>> ELSE IF IsListOrTuple(x) THEN x.items ELSE <<x>>
SequenceMasks == CallsTo({"sequence_mask"})

\* C10: for every combination of memory (none, a tensor, a sequence) and
\* lengths (none, one, a sequence), the k-th source with a length gets one mask
\* from its own length and time dimension, a source without a length gets
\* none, and absent memory yields no mask and no error.
MemoryMaskPerSource ==
    (Called /\ last.sampling_probability = None) =>
        /\ last.result.error = ""
        /\ Len(SequenceMasks) =
              Min(Len(Given(last.memory)), Len(Given(last.memory_sequence_length)))
        /\ \A k \in 1 .. Len(SequenceMasks) :
              /\ SequenceMasks[k].source = Given(last.memory)[k].v.id
              /\ SequenceMasks[k].maxlen = Given(last.memory)[k].v.time
              /\ SequenceMasks[k].length = Given(last.memory_sequence_length)[k].v

====
